---------------------------- MODULE Spec2Model ----------------------------
(***************************************************************************)
(* State-machine model of the orchestration layer of the AI app builder:   *)
(*   - the task scheduler EnhancedAILoop        (src/unnamed/part_000)     *)
(*   - the command runner TerminalRunner and its routes                    *)
(*                       (src/server/terminal-runner.ts, terminal-routes.ts)*)
(*   - the preview servers and the project setup of ComprehensiveAIService *)
(*                       (src/server/comprehensive-ai-service.ts)          *)
(* Strings that the code inspects (commands, chat messages, keyword lists) *)
(* are sequences of UTF-16 code units, each written as a one-character     *)
(* string (or as "U+xxxx"), so that toLowerCase(), length and includes()   *)
(* are computed, not assumed.                                              *)
(* The specifications share the variables: Spec (the scheduler), SpecLive *)
(* (Spec under the event loop's fairness), SpecBurst (the scheduler under  *)
(* a burst of one user's messages), SpecTerminal (the command runner),     *)
(* SpecTerminalLive (SpecTerminal under fairness), SpecPreview (the        *)
(* preview registry), SpecClock (the scheduler with its clock and the      *)
(* /api/enhanced-chat route), SpecRetention (the scheduler at the          *)
(* retention threshold), SpecSetup (the setup commands of a generated      *)
(* project) and SpecSetupLive (SpecSetup with timers that fire).           *)
(***************************************************************************)
EXTENDS Integers, Sequences, FiniteSets, TLC

VARIABLES
  \* EnhancedAILoop
  taskQueue,        \* LoopTask[]                      part_000:25
  activeSessions,   \* Map<userId, ChatSession>        part_000:26
  isRunning,        \* boolean                         part_000:27
  loopPc,           \* where startContinuousLoop is suspended: "sleep", "executing"
                    \* (a handler awaits the generation collaborator), "stuck"
                    \* (that await never settles) or "backoff"
  batch,            \* pendingTasks.slice(0, 3) of the running tick (queue indices)
  batchPos,         \* position in batch of the task being processed
  sleepMs,          \* the delay of the sleep() the loop is suspended in (0: none)
  pendingReplies,   \* per user: handleChatMessage calls awaiting generateChatResponse
  now,              \* Date.now(), in ms
  \* TerminalRunner and the /terminal routes
  sessions,         \* Map<sessionId, TerminalSession> (as the index of its process)
  procs,            \* every child process spawned by runCommand, with its session object
  response,         \* the last HTTP response of a /terminal route
  reqCount,         \* number of /terminal requests handled
  execs,            \* every runCommandAsync call, with the process exec started
  \* ComprehensiveAIService preview servers
  previewServers,   \* Map<projectId, PreviewServer>
  projectCount,     \* number of project ids drawn so far (nanoid() is fresh)
  generated,        \* projectId and previewUrl of the last project generateProject
                    \* returned (previewUrl 0: undefined)
  setups            \* every setupProject call, with the commands it started

schedVars == <<taskQueue, activeSessions, isRunning, loopPc, batch, batchPos,
               sleepMs, pendingReplies, now>>
termVars == <<sessions, procs, response, reqCount, execs>>
prevVars == <<previewServers, projectCount, generated, setups>>
vars == <<taskQueue, activeSessions, isRunning, loopPc, batch, batchPos,
          sleepMs, pendingReplies, now, sessions, procs, response, reqCount,
          execs, previewServers, projectCount, generated, setups>>

---------------------------------------------------------------------------
(* Bounds of the model *)

MaxMessages == 2
MaxProcs == 2
MaxRequests == 3
MaxProjects == 4
MaxFailures == 7
MaxBurst == 4
MaxClock == 2
MaxSetups == 2

---------------------------------------------------------------------------
(* Strings: String.prototype.toLowerCase and String.prototype.includes *)

UpperCase == <<"A", "B", "C", "D", "E", "F", "G", "H", "I", "J", "K", "L", "M", "N", "O", "P", "Q", "R", "S", "T", "U", "V", "W", "X", "Y", "Z">>
LowerCase == <<"a", "b", "c", "d", "e", "f", "g", "h", "i", "j", "k", "l", "m", "n", "o", "p", "q", "r", "s", "t", "u", "v", "w", "x", "y", "z">>

Min(a, b) == IF a < b THEN a ELSE b

\* an empty Map
EmptyMap == [k \in {} |-> k]

LowerChar(c) ==
  IF \E i \in 1..Len(UpperCase) : UpperCase[i] = c
  THEN LowerCase[CHOOSE i \in 1..Len(UpperCase) : UpperCase[i] = c]
  ELSE c

\* the UTF-16 code units of the lower-case form of one code unit: one unit,
\* except for U+0130 (capital I with dot above), whose lower-case form is
\* U+0069 U+0307
LowerUnits(c) ==
  IF c = "U+0130" THEN <<"i", "U+0307">> ELSE <<LowerChar(c)>>

RECURSIVE ToLowerCase(_)
ToLowerCase(s) ==
  IF s = <<>> THEN <<>> ELSE LowerUnits(Head(s)) \o ToLowerCase(Tail(s))

Includes(s, sub) ==
  \E k \in 0..(Len(s) - Len(sub)) :
    \A j \in 1..Len(sub) : s[k + j] = sub[j]

---------------------------------------------------------------------------
(* ComprehensiveAIService: preview servers (comprehensive-ai-service.ts) *)

Languages == {"react", "html", "css", "cpp", "unity"}

\* languageConfigs: whether the language has a runCmd, and its port flag
languageConfigs ==
  [l \in Languages |->
     CASE l = "react" -> [runCmd |-> TRUE,  port |-> TRUE]
       [] l = "html"  -> [runCmd |-> TRUE,  port |-> TRUE]
       [] l = "css"   -> [runCmd |-> FALSE, port |-> FALSE]
       [] l = "cpp"   -> [runCmd |-> TRUE,  port |-> FALSE]
       [] l = "unity" -> [runCmd |-> FALSE, port |-> FALSE]]

basePort == 3001

\* faulty variant of StartsServer: the port flag is not looked at
StartsServerAnyRunCmd(language) == languageConfigs[language].runCmd

\* startPreviewServer returns a URL unless the language has no runCmd or port
StartsServer(language) ==
  languageConfigs[language].runCmd /\ languageConfigs[language].port

\* startPreviewServer: port = basePort + previewServers.size;
\* previewServers.set(projectId, server); exited: whether the process
\* spawned for the server has ended
startPreviewServer(servers, projectId, language) ==
  IF ~StartsServer(language)
  THEN servers
  ELSE LET port == basePort + Cardinality(DOMAIN servers)
           server == [id |-> projectId, port |-> port, language |-> language,
                      exited |-> FALSE]
       IN  [p \in (DOMAIN servers) \cup {projectId} |->
              IF p = projectId THEN server ELSE servers[p]]

\* generateProject: if (languageConfigs[detectedLang]?.port) startPreviewServer
GenerateProjectPreview(servers, projectId, language) ==
  IF languageConfigs[language].port
  THEN startPreviewServer(servers, projectId, language)
  ELSE servers

\* whether generateProject's result carries a previewUrl
HasPreviewUrl(language) ==
  languageConfigs[language].port /\ StartsServer(language)

\* generateProject from nanoid() to its successful return, as far as the
\* preview registry and the returned projectId and previewUrl go
GenerateProject(language) ==
  LET projectId == projectCount + 1
      servers == GenerateProjectPreview(previewServers, projectId, language)
  IN  /\ projectCount' = projectId
      /\ previewServers' = servers
      /\ generated' = [projectId |-> projectId,
                       previewUrl |-> IF HasPreviewUrl(language)
                                      THEN servers[projectId].port ELSE 0]
      /\ UNCHANGED setups

\* a call of generateProject that succeeds
LaunchPreview(language) ==
  /\ projectCount < MaxProjects
  /\ GenerateProject(language)
  /\ UNCHANGED <<schedVars, termVars>>

\* faulty variant of RegistryAfterStop: the whole registry is cleared
RegistryAfterStopClearing(servers, projectId) ==
  IF projectId \in DOMAIN servers THEN EmptyMap ELSE servers

\* the registry after stopPreviewServer(projectId): if (server) { kill;
\* previewServers.delete(projectId) }
RegistryAfterStop(servers, projectId) ==
  IF projectId \in DOMAIN servers
  THEN [p \in (DOMAIN servers) \ {projectId} |-> servers[p]]
  ELSE servers

\* stopPreviewServer(projectId)
stopPreviewServer(projectId) ==
  /\ previewServers' = RegistryAfterStop(previewServers, projectId)
  /\ UNCHANGED <<projectCount, generated, setups>>
  /\ UNCHANGED <<schedVars, termVars>>

\* the process spawned for the preview server of projectId ends, on its own
\* or by crashing: startPreviewServer attached listeners for the 'data' of
\* its stdout and stderr only, so that nothing in the service runs
PreviewProcessExit(projectId) ==
  /\ projectId \in DOMAIN previewServers
  /\ ~previewServers[projectId].exited
  /\ previewServers' = [previewServers EXCEPT ![projectId].exited = TRUE]
  /\ UNCHANGED <<projectCount, generated, setups>>
  /\ UNCHANGED <<schedVars, termVars>>

\* getActiveServers(): id, port and language of every entry of the registry
getActiveServers ==
  { [id |-> previewServers[p].id, port |-> previewServers[p].port,
     language |-> previewServers[p].language] : p \in DOMAIN previewServers }

---------------------------------------------------------------------------
(* ComprehensiveAIService: project setup (comprehensive-ai-service.ts) *)

\* languageConfigs[language].buildCmd is not null
HasBuildCmd(language) == language \in {"react", "cpp"}

\* getSetupCommands(language)
getSetupCommands(language) ==
  IF language = "react" THEN <<"npm install">> ELSE <<>>

\* A command started by executeCommand.
\*   promise     the promise executeCommand returned: "pending", "resolved"
\*               or "rejected"
\*   exited      exec's callback ran: the process has finished
\*   timerFired  the callback of setTimeout(..., 60000) ran
\*   killed      process.kill() was called
NewCommand ==
  [promise |-> "pending", exited |-> FALSE, timerFired |-> FALSE,
   killed |-> FALSE]

\* faulty variant of Settle: a later resolve() or reject() overrides
SettleOverriding(promise, outcome) == outcome

\* resolve() or reject() of a promise: only the first call settles it
Settle(promise, outcome) == IF promise = "pending" THEN outcome ELSE promise

\* executeCommand(command, cwd, output) up to its return: the line of the
\* command is pushed, the process started and the timer set
executeCommand(setup) ==
  [setup EXCEPT !.output = Append(@, "$ command"),
                !.cmds = Append(@, NewCommand)]

\* setupProject(projectPath, language) up to its return or to the first
\* await of executeCommandsSequentially; result: the promise it returned
\* (an async function that returns a promise constructed with resolve only)
NewSetup(language) ==
  LET commands == getSetupCommands(language)
      setup == [language |-> language, commands |-> commands,
                output |-> <<>>, cmds |-> <<>>, result |-> "pending"]
  IN  IF ~HasBuildCmd(language)
      THEN [setup EXCEPT !.output = <<"No setup required">>,
                         !.result = "resolved"]
      ELSE IF Len(commands) = 0
      THEN [setup EXCEPT !.output = <<"No setup commands">>,
                         !.result = "resolved"]
      ELSE executeCommand(setup)

\* the await of executeCommandsSequentially is over for the last command
\* started, whose promise settled as outcome: a rejection leaves the loop
\* and reaches setupProject's catch, which pushes 'Setup failed: ...' and
\* resolves; after a resolution the next command is started, or, after the
\* last, setupProject's then resolves with the output
AfterCommand(setup, outcome) ==
  IF outcome = "rejected"
  THEN [setup EXCEPT !.output = Append(@, "Setup failed"),
                     !.result = "resolved"]
  ELSE IF Len(setup.cmds) < Len(setup.commands)
  THEN executeCommand(setup)
  ELSE [setup EXCEPT !.result = "resolved"]

\* command c of the setup gets resolve() or reject() (outcome): the promise
\* is settled, and when that was its first settling the awaiting
\* executeCommandsSequentially goes on
SettleCommand(setup, c, outcome) ==
  LET settled == [setup EXCEPT
                    !.cmds[c].promise = Settle(@, outcome)]
  IN  IF setup.cmds[c].promise = "pending"
      THEN AfterCommand(settled, settled.cmds[c].promise)
      ELSE settled

\* a call of setupProject (by generateProject, l.156)
SetupProject(language) ==
  /\ Len(setups) < MaxSetups
  /\ setups' = Append(setups, NewSetup(language))
  /\ UNCHANGED <<previewServers, projectCount, generated>>
  /\ UNCHANGED <<schedVars, termVars>>

\* the process of command c of setup k finishes and exec's callback runs:
\* stdout and stderr are pushed, and with an error (a non-zero exit code, a
\* signal, a failed start) 'Error: ...' is pushed and the promise rejected,
\* else it is resolved
CommandExit(k, c, ok) ==
  /\ ~setups[k].cmds[c].exited
  /\ LET exited == [setups[k] EXCEPT
                      !.cmds[c].exited = TRUE,
                      !.output = IF ok THEN Append(@, "stdout")
                                 ELSE Append(Append(@, "stderr"), "Error")]
     IN  setups' = [setups EXCEPT ![k] =
                      SettleCommand(exited, c,
                                    IF ok THEN "resolved" ELSE "rejected")]
  /\ UNCHANGED <<previewServers, projectCount, generated>>
  /\ UNCHANGED <<schedVars, termVars>>

\* the timer of command c of setup k fires, 60 s after the start (it is
\* never cleared): process.kill(), the line of the timeout is pushed, and
\* resolve()
TimerFires(k, c) ==
  /\ ~setups[k].cmds[c].timerFired
  /\ LET fired == [setups[k] EXCEPT
                     !.cmds[c].timerFired = TRUE,
                     !.cmds[c].killed = TRUE,
                     !.output = Append(@, "Command timed out")]
     IN  setups' = [setups EXCEPT ![k] = SettleCommand(fired, c, "resolved")]
  /\ UNCHANGED <<previewServers, projectCount, generated>>
  /\ UNCHANGED <<schedVars, termVars>>

---------------------------------------------------------------------------
(* EnhancedAILoop: the task scheduler (src/unnamed/part_000) *)

Users == {"u1", "u2"}
FileNames == {"a", "b"}
FileData == { [content |-> "x", language |-> "ts"],
              [content |-> "y", language |-> "ts"],
              [content |-> "z", language |-> "ts"] }

\* the {filename: {content, language}} objects generateProject returns here:
\* {a: x}, or {a: z, b: y}
ResultFiles ==
  { files \in UNION { [D -> FileData] : D \in SUBSET FileNames } :
      \/ DOMAIN files = {"a"} /\ files["a"].content = "x"
      \/ /\ DOMAIN files = {"a", "b"}
         /\ files["a"].content = "z"
         /\ files["b"].content = "y" }

\* the languages detectLanguage finds in the generation requests of
\* Messages: unity for those that mention a game, else react, the default
GenLanguages == {"react", "unity"}

\* what a call of generateProject made for a chat reply comes to: a react
\* project (detectLanguage finds no language in the conversational prompt
\* of a chat message of Messages), or a failure, which generateChatResponse
\* catches
ChatOutcomes == {"react", "failed"}

\* generateChatResponse: comprehensiveAI.generateProject with the
\* conversational prompt
GenerateChatResponse(outcome) ==
  IF outcome = "failed" THEN UNCHANGED prevVars ELSE GenerateProject(outcome)

appKeywords ==
  << <<"c", "r", "e", "a", "t", "e">>,
     <<"b", "u", "i", "l", "d">>,
     <<"m", "a", "k", "e">>,
     <<"g", "e", "n", "e", "r", "a", "t", "e">>,
     <<"d", "e", "v", "e", "l", "o", "p">>,
     <<"a", "p", "p">>,
     <<"a", "p", "p", "l", "i", "c", "a", "t", "i", "o", "n">>,
     <<"w", "e", "b", "s", "i", "t", "e">>,
     <<"c", "a", "l", "c", "u", "l", "a", "t", "o", "r">>,
     <<"t", "o", "d", "o">>,
     <<"g", "a", "m", "e">>,
     <<"d", "a", "s", "h", "b", "o", "a", "r", "d">>,
     <<"a", "p", "i">>,
     <<"s", "e", "r", "v", "e", "r">>,
     <<"c", "o", "m", "p", "o", "n", "e", "n", "t">>,
     <<"r", "e", "a", "c", "t">>,
     <<"p", "y", "t", "h", "o", "n">>,
     <<"j", "a", "v", "a", "s", "c", "r", "i", "p", "t">>,
     <<"t", "y", "p", "e", "s", "c", "r", "i", "p", "t">>,
     <<"h", "t", "m", "l">> >>

MsgBuildIt == <<"b", "u", "i", "l", "d", " ", "i", "t">>  \* "build it" (8 chars)
MsgBuildTodo == <<"b", "u", "i", "l", "d", " ", "a", " ", "t", "o", "d", "o">>  \* "build a todo" (12 chars)
MsgHello == <<"h", "e", "l", "l", "o", " ", "t", "h", "e", "r", "e", "!">>  \* "hello there!" (12 chars)
MsgMakeUpper == <<"M", "A", "K", "E", " ", "A", " ", "G", "A", "M", "E", " ", "1">>  \* "MAKE A GAME 1" (13 chars)
MsgBuildApps == <<"b", "u", "i", "l", "d", " ", "a", "p", "p", "s">>  \* "build apps" (10 chars)
MsgMakeAGame == <<"m", "a", "k", "e", " ", "a", " ", "g", "a", "m", "e">>  \* "make a game" (11 chars)

\* "build" followed by a space and three U+0130: 9 code units, 12 once
\* lower-cased
MsgBuildDotted == <<"b", "u", "i", "l", "d", " ", "U+0130", "U+0130", "U+0130">>

Messages == { MsgBuildIt, MsgBuildTodo, MsgHello, MsgMakeUpper, MsgBuildApps,
              MsgMakeAGame, MsgBuildDotted }

retryDelays == <<1000, 2000, 4000, 8000, 16000>>

LoopSleepMs == 100
InactivityWindowMs == 3600000

\* Date.now() when the server starts: 2,000,000,000 ms after the epoch
StartTime == 2000000000
CleanupThreshold == 100
BatchLimit == 3
AppMaxRetries == 3
ChatMaxRetries == 2
PreviewMaxRetries == 2
MinAppMessageLength == 10

IsAppGenerationRequest(message) ==
  LET lowerMessage == ToLowerCase(message)
  IN  /\ \E i \in 1..Len(appKeywords) : Includes(lowerMessage, appKeywords[i])
      /\ Len(lowerMessage) > MinAppMessageLength

getPriorityValue(priority) ==
  CASE priority = "high" -> 1
    [] priority = "medium" -> 2
    [] priority = "low" -> 3
    [] OTHER -> 2

Turn(role, content) == [role |-> role, content |-> content]

NewSession(userId) ==
  [userId |-> userId, projectId |-> 0, conversationHistory |-> <<>>,
   activeFiles |-> EmptyMap, isGenerating |-> FALSE]

\* the prefix of the id of a task of the type
IdPrefix(type) ==
  CASE type = "file_generation" -> "app"
    [] type = "chat" -> "chat"
    [] type = "preview_update" -> "preview"

\* the id `${prefix}_${Date.now()}_${userId}`: the digits of the time end at
\* the second underscore, so two ids are equal exactly when prefix, time and
\* userId are
TaskId(type, time, userId) == <<IdPrefix(type), time, userId>>

NewTask(type, userId, maxRetries, priority) ==
  [id |-> TaskId(type, now, userId),
   type |-> type, userId |-> userId, retries |-> 0, maxRetries |-> maxRetries,
   priority |-> priority, status |-> "pending"]

\* faulty variant of PushTurn: the turn is put in front of the history
PushTurnFront(ss, userId, turn) ==
  IF userId \in DOMAIN ss
  THEN [ss EXCEPT ![userId].conversationHistory = <<turn>> \o @]
  ELSE ss

\* faulty variant of PushTurn: the turn is pushed twice
PushTurnTwice(ss, userId, turn) ==
  IF userId \in DOMAIN ss
  THEN [ss EXCEPT ![userId].conversationHistory = Append(Append(@, turn), turn)]
  ELSE ss

\* session.conversationHistory.push(turn) on the session object a task or a
\* request holds.  That object is the registry's entry for its user for as
\* long as the entry is not evicted; a push to an evicted object is not
\* visible through the registry.
PushTurn(ss, userId, turn) ==
  IF userId \in DOMAIN ss
  THEN [ss EXCEPT ![userId].conversationHistory = Append(@, turn)]
  ELSE ss

\* faulty variant of MergeFiles: the session's files are replaced, not merged
MergeFilesReplacing(activeFiles, files) == files

\* faulty variant of MergeFiles: a file the session already has is kept
MergeFilesKeeping(activeFiles, files) ==
  [f \in (DOMAIN activeFiles) \cup (DOMAIN files) |->
     IF f \in DOMAIN activeFiles THEN activeFiles[f] ELSE files[f]]

\* session.activeFiles.set(filename, ...) for every entry of result.files
MergeFiles(activeFiles, files) ==
  [f \in (DOMAIN activeFiles) \cup (DOMAIN files) |->
     IF f \in DOMAIN files THEN files[f] ELSE activeFiles[f]]

SetStatus(q, i, status) == [q EXCEPT ![i].status = status]

\* faulty variant of SortedPending: the tasks of every status are selected
SortedPendingAnyStatus(q) ==
  LET idx == [i \in 1..Len(q) |-> i]
      Rank(r) == LET Test(i) == getPriorityValue(q[i].priority) = r
                 IN  SelectSeq(idx, Test)
  IN  Rank(1) \o Rank(2) \o Rank(3)

\* faulty variant of SortedPending: only the high-priority tasks are selected
SortedPendingHighOnly(q) ==
  LET idx == [i \in 1..Len(q) |-> i]
      Test(i) == q[i].status = "pending" /\ q[i].priority = "high"
  IN  SelectSeq(idx, Test)

\* faulty variant of SortedPending: the pending tasks in queue order, unsorted
SortedPendingUnsorted(q) ==
  LET idx == [i \in 1..Len(q) |-> i]
      Test(i) == q[i].status = "pending"
  IN  SelectSeq(idx, Test)

\* stable sort of the pending tasks by priority value, as indices of the queue
SortedPending(q) ==
  LET idx == [i \in 1..Len(q) |-> i]
      Rank(r) == LET Test(i) == q[i].status = "pending"
                                /\ getPriorityValue(q[i].priority) = r
                 IN  SelectSeq(idx, Test)
  IN  Rank(1) \o Rank(2) \o Rank(3)

\* faulty variant of SelectBatch: every pending task, without slice(0, 3)
SelectBatchUnbounded(q) == SortedPending(q)

SelectBatch(q) ==
  LET pendingTasks == SortedPending(q)
  IN  SubSeq(pendingTasks, 1, Min(BatchLimit, Len(pendingTasks)))

\* maintainActiveSessions at the clock value time: lastActivity is
\* Date.now() for a session with turns and 0 for one without, and a session
\* is deleted if now - lastActivity > 3600000
MaintainActiveSessions(ss, time) ==
  LET lastActivity(u) ==
        IF Len(ss[u].conversationHistory) > 0 THEN time ELSE 0
      keep == {u \in DOMAIN ss : ~(time - lastActivity(u) > InactivityWindowMs)}
  IN  [u \in keep |-> ss[u]]

cleanupCompletedTasks(q) ==
  LET Completed(t) == t.status = "completed"
      NotCompleted(t) == t.status # "completed"
  IN  IF Len(SelectSeq(q, Completed)) > CleanupThreshold
      THEN SelectSeq(q, NotCompleted)
      ELSE q

\* faulty variant of RetryDelay: the table is indexed by retries, not retries - 1
RetryDelayShifted(retries) ==
  retryDelays[Min(retries, Len(retryDelays) - 1) + 1]

RetryDelay(retries) ==
  retryDelays[Min(retries - 1, Len(retryDelays) - 1) + 1]

CurTask == taskQueue[batch[batchPos]]

\* number of handleChatMessage calls so far: each queued one chat or
\* file_generation task
MessageCount ==
  Cardinality({i \in 1..Len(taskQueue) : taskQueue[i].type # "preview_update"})

\* handleChatMessage, up to its return (generation request) or up to the
\* await of generateChatResponse (plain chat), the clock left aside
handleChatMessage(userId, message) ==
  /\ LET session == IF userId \in DOMAIN activeSessions
                    THEN activeSessions[userId] ELSE NewSession(userId)
         withTurn == [session EXCEPT
                        !.conversationHistory = Append(@, Turn("user", "message"))]
         ss == [u \in (DOMAIN activeSessions) \cup {userId} |->
                  IF u = userId THEN withTurn ELSE activeSessions[u]]
     IN  /\ activeSessions' = ss
         /\ IF IsAppGenerationRequest(message)
            THEN /\ taskQueue' = Append(taskQueue,
                      NewTask("file_generation", userId, AppMaxRetries, "high"))
                 /\ UNCHANGED pendingReplies
            ELSE /\ taskQueue' = Append(taskQueue,
                      NewTask("chat", userId, ChatMaxRetries, "medium"))
                 /\ pendingReplies' = [pendingReplies EXCEPT ![userId] = @ + 1]
  /\ UNCHANGED <<isRunning, loopPc, batch, batchPos, sleepMs>>
  /\ UNCHANGED <<termVars, prevVars>>

\* a call of handleChatMessage within one millisecond
HandleChatMessage(userId, message) ==
  /\ handleChatMessage(userId, message)
  /\ UNCHANGED now

\* handleChatMessage, after generateChatResponse returned (it never throws)
ChatResponse(userId, outcome) ==
  /\ pendingReplies[userId] > 0
  /\ pendingReplies' = [pendingReplies EXCEPT ![userId] = @ - 1]
  /\ activeSessions' = PushTurn(activeSessions, userId, Turn("assistant", "reply"))
  /\ GenerateChatResponse(outcome)
  /\ UNCHANGED <<taskQueue, isRunning, loopPc, batch, batchPos, sleepMs, now>>
  /\ UNCHANGED termVars

\* executePreviewUpdate only logs and has no suspension point: from the
\* position pos of the batch on, the preview_update tasks are marked
\* processing, executed and marked completed without any other handler
\* running in between.  Gives the queue, and the position of the first
\* task that suspends (Len(b) + 1 if there is none).
RECURSIVE RunPreviewUpdates(_, _, _)
RunPreviewUpdates(q, b, pos) ==
  IF pos <= Len(b) /\ q[b[pos]].type = "preview_update"
  THEN RunPreviewUpdates(SetStatus(q, b[pos], "completed"), b, pos + 1)
  ELSE [queue |-> q, pos |-> pos]

\* processPendingTasks from position pos of the batch b on, up to the next
\* suspension: the await of a generation or chat handler, or, when the batch
\* is exhausted, the two sweeps and sleep(100) that end the tick.
RunBatch(q, ss, b, pos) ==
  LET r == RunPreviewUpdates(q, b, pos)
  IN  IF r.pos <= Len(b)
      THEN /\ taskQueue' = SetStatus(r.queue, b[r.pos], "processing")
           /\ activeSessions' = ss
           /\ batch' = b
           /\ batchPos' = r.pos
           /\ loopPc' = "executing"
           /\ sleepMs' = 0
      ELSE /\ taskQueue' = cleanupCompletedTasks(r.queue)
           /\ activeSessions' = MaintainActiveSessions(ss, now)
           /\ batch' = <<>>
           /\ batchPos' = 0
           /\ loopPc' = "sleep"
           /\ sleepMs' = LoopSleepMs

\* the loop after the task at batchPos is done with (completed, failed or
\* re-queued)
Continue(q, ss) == RunBatch(q, ss, batch, batchPos + 1)

\* one iteration of startContinuousLoop up to its first suspension
StartTick ==
  /\ loopPc = "sleep"
  /\ isRunning
  /\ RunBatch(taskQueue, activeSessions, SelectBatch(taskQueue), 1)
  /\ UNCHANGED <<isRunning, pendingReplies, now>>
  /\ UNCHANGED <<termVars, prevVars>>

\* executeFileGeneration when generateProject returns success with files.
\* generateProject drew a fresh projectId and, for a language with a port,
\* started its preview server (comprehensive-ai-service.ts:158-162).
ExecuteFileGenerationOk(files, language) ==
  /\ loopPc = "executing"
  /\ CurTask.type = "file_generation"
  /\ LET i == batch[batchPos]
         userId == CurTask.userId
         projectId == projectCount + 1
         hasPreview == HasPreviewUrl(language)
         merged == IF userId \in DOMAIN activeSessions
                   THEN [activeSessions EXCEPT
                           ![userId].activeFiles = MergeFiles(@, files),
                           ![userId].projectId =
                              IF hasPreview THEN projectId ELSE @]
                   ELSE activeSessions
         ss == PushTurn(merged, userId, Turn("assistant", "summary"))
         queued == IF hasPreview
                   THEN Append(taskQueue,
                          NewTask("preview_update", userId, PreviewMaxRetries, "high"))
                   ELSE taskQueue
     IN  /\ Continue(SetStatus(queued, i, "completed"), ss)
         /\ GenerateProject(language)
  /\ UNCHANGED <<isRunning, pendingReplies, now>>
  /\ UNCHANGED termVars

\* faulty variant of HandleTaskError: one retry too many (retries <= maxRetries + 1)
HandleTaskErrorExtraRetry(i) ==
  LET retries == taskQueue[i].retries + 1
      q == [taskQueue EXCEPT ![i].retries = retries]
  IN  IF retries <= taskQueue[i].maxRetries + 1
      THEN /\ taskQueue' = q
           /\ loopPc' = "backoff"
           /\ sleepMs' = RetryDelay(retries)
           /\ UNCHANGED <<activeSessions, batch, batchPos>>
      ELSE Continue(SetStatus(q, i, "failed"),
                    PushTurn(activeSessions, taskQueue[i].userId,
                             Turn("assistant", "apology")))

\* faulty variant of HandleTaskError: one retry too few (retries < maxRetries)
HandleTaskErrorEarlyFail(i) ==
  LET retries == taskQueue[i].retries + 1
      q == [taskQueue EXCEPT ![i].retries = retries]
  IN  IF retries < taskQueue[i].maxRetries
      THEN /\ taskQueue' = q
           /\ loopPc' = "backoff"
           /\ sleepMs' = RetryDelay(retries)
           /\ UNCHANGED <<activeSessions, batch, batchPos>>
      ELSE Continue(SetStatus(q, i, "failed"),
                    PushTurn(activeSessions, taskQueue[i].userId,
                             Turn("assistant", "apology")))

\* faulty variant of HandleTaskError: the permanent failure is not notified
HandleTaskErrorSilent(i) ==
  LET retries == taskQueue[i].retries + 1
      q == [taskQueue EXCEPT ![i].retries = retries]
  IN  IF retries <= taskQueue[i].maxRetries
      THEN /\ taskQueue' = q
           /\ loopPc' = "backoff"
           /\ sleepMs' = RetryDelay(retries)
           /\ UNCHANGED <<activeSessions, batch, batchPos>>
      ELSE Continue(SetStatus(q, i, "failed"), activeSessions)

\* handleTaskError(task, error)
HandleTaskError(i) ==
  LET retries == taskQueue[i].retries + 1
      q == [taskQueue EXCEPT ![i].retries = retries]
  IN  IF retries <= taskQueue[i].maxRetries
      THEN /\ taskQueue' = q
           /\ loopPc' = "backoff"
           /\ sleepMs' = RetryDelay(retries)
           /\ UNCHANGED <<activeSessions, batch, batchPos>>
      ELSE Continue(SetStatus(q, i, "failed"),
                    PushTurn(activeSessions, taskQueue[i].userId,
                             Turn("assistant", "apology")))

\* executeFileGeneration when generateProject reports failure: it throws
ExecuteFileGenerationFail ==
  /\ loopPc = "executing"
  /\ CurTask.type = "file_generation"
  /\ HandleTaskError(batch[batchPos])
  /\ UNCHANGED <<isRunning, pendingReplies, now>>
  /\ UNCHANGED <<termVars, prevVars>>

\* handleTaskError after sleep(delay): task.status = 'pending'
BackoffElapsed ==
  /\ loopPc = "backoff"
  /\ Continue(SetStatus(taskQueue, batch[batchPos], "pending"), activeSessions)
  /\ UNCHANGED <<isRunning, pendingReplies, now>>
  /\ UNCHANGED <<termVars, prevVars>>

\* executeChatTask: generateChatResponse catches every error
ExecuteChatTask(outcome) ==
  /\ loopPc = "executing"
  /\ CurTask.type = "chat"
  /\ Continue(SetStatus(taskQueue, batch[batchPos], "completed"),
              PushTurn(activeSessions, CurTask.userId,
                       Turn("assistant", "contextual")))
  /\ GenerateChatResponse(outcome)
  /\ UNCHANGED <<isRunning, pendingReplies, now>>
  /\ UNCHANGED termVars

\* the generation collaborator never answers: the await of generateProject
\* in executeFileGeneration (l.172) or, through generateChatResponse (l.267),
\* in executeChatTask never settles, and processPendingTasks stays suspended
HandlerHangs ==
  /\ loopPc = "executing"
  /\ loopPc' = "stuck"
  /\ UNCHANGED <<taskQueue, activeSessions, isRunning, batch, batchPos, sleepMs,
                 pendingReplies, now>>
  /\ UNCHANGED <<termVars, prevVars>>

stop ==
  /\ isRunning
  /\ isRunning' = FALSE
  /\ UNCHANGED <<taskQueue, activeSessions, loopPc, batch, batchPos, sleepMs,
                 pendingReplies, now>>
  /\ UNCHANGED <<termVars, prevVars>>

\* getTaskStatus(taskId): the status of the first task of the queue with
\* that id, undefined if there is none
getTaskStatus(q, taskId) ==
  IF \E i \in 1..Len(q) : q[i].id = taskId
  THEN q[CHOOSE i \in 1..Len(q) :
           /\ q[i].id = taskId
           /\ \A j \in 1..(i - 1) : q[j].id # taskId].status
  ELSE "undefined"

\* no preview address in a response
NoPreviewUrl == 0

\* The body that POST /api/enhanced-chat sends when handleChatMessage has
\* returned result: session is getSession(userId) (NoSession if undefined),
\* time the value of the route's own Date.now().  A preview address is given
\* by its port, a missing taskId by <<>>.
NoSession == [projectId |-> 0, activeFiles |-> EmptyMap]

EnhancedChatResponse(resultType, session, userId, time) ==
  [type |-> resultType,
   previewUrl |-> IF session.projectId # 0
                  THEN basePort + Cardinality(DOMAIN session.activeFiles)
                  ELSE NoPreviewUrl,
   taskId |-> IF resultType = "app_generation"
              THEN TaskId("file_generation", time, userId)
              ELSE <<>>]

\* the session that getSession(userId) gives the route
GetSession(ss, userId) == IF userId \in DOMAIN ss THEN ss[userId] ELSE NoSession

\* POST /api/enhanced-chat with message and userId, up to the response
\* (generation request) or up to the await of generateChatResponse (plain
\* chat); elapsed: the milliseconds that pass between the Date.now() of
\* handleChatMessage and the one of the route
PostEnhancedChat(userId, message, elapsed) ==
  /\ elapsed = 0 \/ now + elapsed <= StartTime + MaxClock
  /\ handleChatMessage(userId, message)
  /\ now' = now + elapsed

\* the response of the step PostEnhancedChat(userId, message, elapsed) to a
\* generation request
GenerationResponse(userId) ==
  EnhancedChatResponse("app_generation", GetSession(activeSessions', userId),
                       userId, now')

\* the response to a plain-chat request, sent in the step ChatResponse
PlainChatResponse(userId) ==
  EnhancedChatResponse("chat", GetSession(activeSessions', userId),
                       userId, now')

\* a millisecond passes
ClockTick ==
  /\ now < StartTime + MaxClock
  /\ now' = now + 1
  /\ UNCHANGED <<taskQueue, activeSessions, isRunning, loopPc, batch, batchPos,
                 sleepMs, pendingReplies>>
  /\ UNCHANGED <<termVars, prevVars>>

\* More than an hour passes in which no message arrives, while the loop
\* runs, no task is pending and no reply is awaited: every tick of that
\* time selects an empty batch and runs the two sweeps.
IdleHour ==
  /\ loopPc = "sleep"
  /\ isRunning
  /\ \A i \in 1..Len(taskQueue) : taskQueue[i].status # "pending"
  /\ \A u \in Users : pendingReplies[u] = 0
  /\ now <= StartTime + MaxClock
  /\ now' = now + InactivityWindowMs + 1
  /\ taskQueue' = cleanupCompletedTasks(taskQueue)
  /\ activeSessions' = MaintainActiveSessions(activeSessions, now')
  /\ UNCHANGED <<isRunning, loopPc, batch, batchPos, sleepMs, pendingReplies>>
  /\ UNCHANGED <<termVars, prevVars>>

---------------------------------------------------------------------------
(* TerminalRunner and the /terminal routes                                 *)
(* (src/server/terminal-runner.ts, src/server/terminal-routes.ts)          *)

SessionIds == {"s1", "s2"}

dangerousCommands ==
  << <<"r", "m", " ", "-", "r", "f">>,
     <<"r", "m", "d", "i", "r">>,
     <<"d", "e", "l">>,
     <<"f", "o", "r", "m", "a", "t">>,
     <<"s", "h", "u", "t", "d", "o", "w", "n">>,
     <<"r", "e", "b", "o", "o", "t">>,
     <<"h", "a", "l", "t">>,
     <<"k", "i", "l", "l">>,
     <<"k", "i", "l", "l", "a", "l", "l">>,
     <<"d", "d", " ", "i", "f", "=">>,
     <<"m", "k", "f", "s">>,
     <<"f", "d", "i", "s", "k">>,
     <<":", "(", ")", "{", " ", ":", "|", ":", "&", " ", "}", ";", ":">>,
     <<"s", "u", "d", "o">>,
     <<"s", "u">>,
     <<"c", "h", "m", "o", "d", " ", "7", "7", "7">>,
     <<"c", "h", "o", "w", "n">>,
     <<"p", "a", "s", "s", "w", "d">>,
     <<"u", "s", "e", "r", "a", "d", "d">>,
     <<"u", "s", "e", "r", "d", "e", "l">> >>

CmdRmRf == <<"r", "m", " ", "-", "r", "f", " ", "/">>  \* "rm -rf /" (8 chars)
CmdRmRfUpper == <<"R", "M", " ", "-", "R", "F", " ", "/">>  \* "RM -RF /" (8 chars)
CmdNpmTest == <<"n", "p", "m", " ", "t", "e", "s", "t">>  \* "npm test" (8 chars)
CmdEchoSum == <<"e", "c", "h", "o", " ", "s", "u", "m">>  \* "echo sum" (8 chars)
CmdNone == <<>>  \* no command in the request body

Commands == { CmdRmRf, CmdRmRfUpper, CmdNpmTest, CmdEchoSum }

\* the commands of the requests: Commands, and no command
RequestCommands == Commands \cup {CmdNone}

\* faulty variant of DangerousIn: the command is not lower-cased first
DangerousInCaseSensitive(command) ==
  \E i \in 1..Len(dangerousCommands) :
    Includes(command, dangerousCommands[i])

\* dangerousCommands.some(dangerous => lowerCommand.includes(dangerous))
DangerousIn(command) ==
  LET lowerCommand == ToLowerCase(command)
  IN  \E i \in 1..Len(dangerousCommands) :
        Includes(lowerCommand, dangerousCommands[i])

\* isCommandSafe, tabulated once for the commands of the requests
SafeCommands == {c \in RequestCommands : ~DangerousIn(c)}

isCommandSafe(command) == command \in SafeCommands

\* A child process with the TerminalSession object and the callbacks that
\* runCommand attached to it.
\*   alive        the OS process runs (false from the start if spawn failed)
\*   signalled    kill('SIGTERM') was delivered to it
\*   isActive     session.isActive of its TerminalSession object
\*   errorEmitted/closeEmitted   the 'error' / 'close' event was delivered
\*   closeCalls   how many times its onClose callback was invoked
\*   lastCode     the code of the last onClose call
\*   reqClosed    the 'close' event of the request that started it was
\*                delivered
NewProc(sessionId, spawnOk) ==
  [sid |-> sessionId, alive |-> spawnOk,
   spawnFailed |-> ~spawnOk, signalled |-> FALSE, isActive |-> TRUE,
   errorEmitted |-> FALSE, closeEmitted |-> FALSE, closeCalls |-> 0,
   lastCode |-> 0, reqClosed |-> FALSE]

\* faulty variant of killSession: the session is not marked inactive
killSessionStaysActive(ss, ps, sessionId, killThrows) ==
  IF sessionId \in DOMAIN ss /\ ps[ss[sessionId]].isActive
  THEN IF killThrows
       THEN [sessions |-> ss, procs |-> ps, result |-> FALSE]
       ELSE [sessions |-> [s \in (DOMAIN ss) \ {sessionId} |-> ss[s]],
             procs |-> [ps EXCEPT ![ss[sessionId]].signalled = TRUE],
             result |-> TRUE]
  ELSE [sessions |-> ss, procs |-> ps, result |-> FALSE]

\* killSession(sessionId); killThrows: session.process.kill('SIGTERM') throws
killSession(ss, ps, sessionId, killThrows) ==
  IF sessionId \in DOMAIN ss /\ ps[ss[sessionId]].isActive
  THEN IF killThrows
       THEN [sessions |-> ss, procs |-> ps, result |-> FALSE]
       ELSE [sessions |-> [s \in (DOMAIN ss) \ {sessionId} |-> ss[s]],
             procs |-> [ps EXCEPT ![ss[sessionId]].signalled = TRUE,
                                  ![ss[sessionId]].isActive = FALSE],
             result |-> TRUE]
  ELSE [sessions |-> ss, procs |-> ps, result |-> FALSE]

\* runCommand(sessionId, command, cwd, onData, onClose)
runCommand(ss, ps, sessionId, command, killThrows, spawnOk) ==
  LET killed == killSession(ss, ps, sessionId, killThrows)
      proc == Len(ps) + 1
  IN  [sessions |-> [s \in (DOMAIN killed.sessions) \cup {sessionId} |->
                       IF s = sessionId THEN proc ELSE killed.sessions[s]],
       procs |-> Append(killed.procs, NewProc(sessionId, spawnOk))]

\* the last response of a /terminal route: status 0 while nothing was sent
\* yet; success is the success field of the /terminal/kill body
Response(route, command, status) ==
  [route |-> route, command |-> command, status |-> status, success |-> FALSE]

\* number of processes started by runCommandAsync
execCount == Len(execs)

\* a call of runCommandAsync: exec(command, { cwd }, callback), with no
\* timeout option; exits: whether the process ends on its own
NewExec(command, exits) ==
  [command |-> command, exits |-> exits, resolved |-> FALSE]

\* POST /terminal/run
PostTerminalRun(sessionId, command, hasPath, killThrows, spawnOk) ==
  /\ reqCount < MaxRequests
  /\ reqCount' = reqCount + 1
  /\ IF command = CmdNone \/ ~hasPath
     THEN /\ response' = Response("run", command, 400)
          /\ UNCHANGED <<sessions, procs>>
     ELSE IF ~isCommandSafe(command)
     THEN /\ response' = Response("run", command, 400)
          /\ UNCHANGED <<sessions, procs>>
     ELSE /\ Len(procs) < MaxProcs
          /\ response' = Response("run", command, 200)
          /\ LET r == runCommand(sessions, procs, sessionId, command,
                                 killThrows, spawnOk)
             IN  /\ sessions' = r.sessions
                 /\ procs' = r.procs
  /\ UNCHANGED execs
  /\ UNCHANGED <<schedVars, prevVars>>

\* POST /terminal/exec up to the await of runCommandAsync, which starts a
\* process outside the registry; nothing is sent before the await is over
PostTerminalExec(command, hasPath, exits) ==
  /\ reqCount < MaxRequests
  /\ reqCount' = reqCount + 1
  /\ IF command = CmdNone \/ ~hasPath
     THEN /\ response' = Response("exec", command, 400)
          /\ UNCHANGED execs
     ELSE IF ~isCommandSafe(command)
     THEN /\ response' = Response("exec", command, 400)
          /\ UNCHANGED execs
     ELSE /\ response' = Response("exec", command, 0)
          /\ execs' = Append(execs, NewExec(command, exits))
  /\ UNCHANGED <<sessions, procs>>
  /\ UNCHANGED <<schedVars, prevVars>>

\* the process of a runCommandAsync call ends: exec's callback resolves the
\* promise with {stdout, stderr, code}, and POST /terminal/exec sends its
\* result
ExecExit(c) ==
  /\ execs[c].exits
  /\ ~execs[c].resolved
  /\ execs' = [execs EXCEPT ![c].resolved = TRUE]
  /\ response' = Response("exec", execs[c].command, 200)
  /\ UNCHANGED <<sessions, procs, reqCount>>
  /\ UNCHANGED <<schedVars, prevVars>>

\* no session id in the body of a /terminal/kill request
NoSessionId == ""

\* POST /terminal/kill
PostTerminalKill(sessionId, killThrows) ==
  /\ reqCount < MaxRequests
  /\ reqCount' = reqCount + 1
  /\ IF sessionId = NoSessionId
     THEN /\ response' = Response("kill", CmdNone, 400)
          /\ UNCHANGED <<sessions, procs>>
     ELSE LET r == killSession(sessions, procs, sessionId, killThrows)
          IN  /\ sessions' = r.sessions
              /\ procs' = r.procs
              /\ response' = [Response("kill", CmdNone, 200)
                                EXCEPT !.success = r.result]
  /\ UNCHANGED execs
  /\ UNCHANGED <<schedVars, prevVars>>

\* req.on('close') of the /terminal/run request that started process p: the
\* client went away, or the response was ended; killSession(id) with the
\* session id of the request.  The event is delivered once per request.
RunRequestClosed(p, killThrows) ==
  /\ ~procs[p].reqClosed
  /\ LET r == killSession(sessions, procs, procs[p].sid, killThrows)
     IN  /\ sessions' = r.sessions
         /\ procs' = [r.procs EXCEPT ![p].reqClosed = TRUE]
  /\ UNCHANGED <<response, reqCount, execs>>
  /\ UNCHANGED <<schedVars, prevVars>>

\* proc.on('error'): delivered when the process could not be spawned
ProcError(p) ==
  /\ procs[p].spawnFailed
  /\ ~procs[p].errorEmitted
  /\ procs' = [procs EXCEPT ![p].errorEmitted = TRUE,
                            ![p].isActive = FALSE,
                            ![p].closeCalls = @ + 1,
                            ![p].lastCode = 1]
  /\ UNCHANGED <<sessions, response, reqCount, execs>>
  /\ UNCHANGED <<schedVars, prevVars>>

\* the code of a 'close' event: the exit status of a process that exited,
\* and null (NullCode) for a process that was ended by a signal
NullCode == -1
ExitCodes == {0, 1, NullCode}

\* code || 0
CodeOrZero(code) == IF code = NullCode THEN 0 ELSE code

\* proc.on('close'): the process has ended (on its own, by a signal, or
\* after a failed spawn, where Node delivers 'error' first); a process that
\* was sent SIGTERM ends by the signal, or has exited before it arrived
ProcClose(p, code) ==
  /\ ~procs[p].closeEmitted
  /\ procs[p].spawnFailed => procs[p].errorEmitted
  /\ code = NullCode => (procs[p].signalled /\ ~procs[p].spawnFailed)
  /\ procs' = [procs EXCEPT ![p].alive = FALSE,
                            ![p].closeEmitted = TRUE,
                            ![p].isActive = FALSE,
                            ![p].closeCalls = @ + 1,
                            ![p].lastCode = CodeOrZero(code)]
  /\ UNCHANGED <<sessions, response, reqCount, execs>>
  /\ UNCHANGED <<schedVars, prevVars>>

---------------------------------------------------------------------------
(* Specifications *)

Init ==
  /\ taskQueue = <<>>
  /\ activeSessions = EmptyMap
  /\ isRunning = TRUE
  /\ loopPc = "sleep"
  /\ batch = <<>>
  /\ batchPos = 0
  /\ sleepMs = LoopSleepMs
  /\ pendingReplies = [u \in Users |-> 0]
  /\ now = StartTime
  /\ sessions = EmptyMap
  /\ procs = <<>>
  /\ response = Response("none", CmdNone, 0)
  /\ reqCount = 0
  /\ execs = <<>>
  /\ previewServers = EmptyMap
  /\ projectCount = 0
  /\ generated = [projectId |-> 0, previewUrl |-> 0]
  /\ setups = <<>>

Next ==
  \/ \E u \in Users, m \in Messages :
       MessageCount < MaxMessages /\ HandleChatMessage(u, m)
  \/ \E u \in Users, o \in ChatOutcomes : ChatResponse(u, o)
  \/ StartTick
  \/ \E f \in ResultFiles, l \in GenLanguages : ExecuteFileGenerationOk(f, l)
  \/ ExecuteFileGenerationFail
  \/ BackoffElapsed
  \/ \E o \in ChatOutcomes : ExecuteChatTask(o)
  \/ HandlerHangs
  \/ stop

Spec == Init /\ [][Next]_vars

\* A handler whose await settles returns (ExecuteFileGeneration*,
\* ExecuteChatTask), a timer set by sleep() fires (StartTick, BackoffElapsed),
\* and generateChatResponse answers the request (ChatResponse): the event
\* loop runs every callback that is ready.  Nothing makes a message arrive,
\* stop() be called, or a hung collaborator answer.
GenerationReturns ==
  \/ \E f \in ResultFiles, l \in GenLanguages : ExecuteFileGenerationOk(f, l)
  \/ ExecuteFileGenerationFail

ChatTaskReturns == \E o \in ChatOutcomes : ExecuteChatTask(o)

ChatResponds(userId) == \E o \in ChatOutcomes : ChatResponse(userId, o)

SpecLive ==
  /\ Init /\ [][Next]_vars
  /\ WF_vars(StartTick)
  /\ WF_vars(BackoffElapsed)
  /\ WF_vars(ChatTaskReturns)
  /\ WF_vars(GenerationReturns)
  /\ \A u \in Users : WF_vars(ChatResponds(u))

\* A burst of messages of one user, deeper than one tick's batch: every
\* generation task succeeds with the same files and starts a preview, and no
\* chat reply produces a project.
BurstUser == "u1"
BurstMessages == { MsgBuildTodo, MsgHello }
BurstFiles == CHOOSE f \in ResultFiles : DOMAIN f = {"a"}
BurstLanguage == "react"

NextBurst ==
  \/ \E m \in BurstMessages :
       MessageCount < MaxBurst /\ HandleChatMessage(BurstUser, m)
  \/ ChatResponse(BurstUser, "failed")
  \/ StartTick
  \/ ExecuteFileGenerationOk(BurstFiles, BurstLanguage)
  \/ ExecuteChatTask("failed")

SpecBurst == Init /\ [][NextBurst]_vars

NextTerminal ==
  \/ \E s \in SessionIds, c \in RequestCommands, hp \in BOOLEAN,
        kt \in BOOLEAN, so \in BOOLEAN : PostTerminalRun(s, c, hp, kt, so)
  \/ \E c \in RequestCommands, hp \in BOOLEAN, ex \in BOOLEAN :
       PostTerminalExec(c, hp, ex)
  \/ \E s \in SessionIds \cup {NoSessionId}, kt \in BOOLEAN :
       PostTerminalKill(s, kt)
  \/ \E p \in 1..Len(procs), kt \in BOOLEAN : RunRequestClosed(p, kt)
  \/ \E c \in 1..Len(execs) : ExecExit(c)
  \/ \E p \in 1..Len(procs) : ProcError(p)
  \/ \E p \in 1..Len(procs), code \in ExitCodes : ProcClose(p, code)

SpecTerminal == Init /\ [][NextTerminal]_vars

\* A process that ends on its own does end, and the event loop delivers the
\* 'error' event of a failed spawn.  Nothing makes a request arrive, and
\* nothing ends a process that does not end on its own.
SpecTerminalLive ==
  /\ Init /\ [][NextTerminal]_vars
  /\ \A c \in 1..MaxRequests : WF_vars(c \in 1..Len(execs) /\ ExecExit(c))
  /\ \A p \in 1..MaxProcs : WF_vars(p \in 1..Len(procs) /\ ProcError(p))

NextPreview ==
  \/ \E l \in Languages : LaunchPreview(l)
  \/ \E p \in 1..MaxProjects : stopPreviewServer(p)
  \/ \E p \in 1..MaxProjects : PreviewProcessExit(p)

SpecPreview == Init /\ [][NextPreview]_vars

\* The setups of generated projects: calls of setupProject for every
\* language, processes that finish with or without an error or not at all,
\* and the timers of the commands.
SetupCommands(k) == 1..Len(setups[k].cmds)

NextSetup ==
  \/ \E l \in Languages : SetupProject(l)
  \/ \E k \in 1..Len(setups) : \E c \in SetupCommands(k), ok \in BOOLEAN :
       CommandExit(k, c, ok)
  \/ \E k \in 1..Len(setups) : \E c \in SetupCommands(k) : TimerFires(k, c)

SpecSetup == Init /\ [][NextSetup]_vars

\* the longest list of setup commands
MaxCommands == 1

\* A timer that was set fires.  Nothing makes a process finish, or a
\* project be generated.
SpecSetupLive ==
  /\ Init /\ [][NextSetup]_vars
  /\ \A k \in 1..MaxSetups, c \in 1..MaxCommands :
       WF_vars(k \in 1..Len(setups) /\ c \in SetupCommands(k) /\ TimerFires(k, c))

\* The scheduler with its clock: messages of both kinds, handlers that
\* succeed, the passing of a millisecond and of an idle hour.
ClockMessages == { MsgBuildTodo, MsgHello }

NextClock ==
  \/ \E u \in Users, m \in ClockMessages, e \in 0..1 :
       MessageCount < MaxMessages /\ PostEnhancedChat(u, m, e)
  \/ \E u \in Users : ChatResponse(u, "failed")
  \/ StartTick
  \/ \E l \in GenLanguages : ExecuteFileGenerationOk(BurstFiles, l)
  \/ ExecuteChatTask("failed")
  \/ ClockTick
  \/ IdleHour

SpecClock == Init /\ [][NextClock]_vars

\* The scheduler at the retention threshold: one user has sent 100 chat
\* messages, one per millisecond, and all of them were answered and their
\* tasks completed; no sweep has run yet (100 completed tasks is not more
\* than 100).
RetainedUser == "u1"

RetainedTask(k) ==
  [id |-> TaskId("chat", StartTime - CleanupThreshold - 1 + k, RetainedUser),
   type |-> "chat", userId |-> RetainedUser, retries |-> 0,
   maxRetries |-> ChatMaxRetries, priority |-> "medium",
   status |-> "completed"]

RetainedHistory ==
  [k \in 1..(3 * CleanupThreshold) |->
     CASE k % 3 = 1 -> Turn("user", "message")
       [] k % 3 = 2 -> Turn("assistant", "reply")
       [] k % 3 = 0 -> Turn("assistant", "contextual")]

InitRetention ==
  /\ taskQueue = [k \in 1..CleanupThreshold |-> RetainedTask(k)]
  /\ activeSessions =
       [u \in {RetainedUser} |->
          [NewSession(u) EXCEPT !.conversationHistory = RetainedHistory]]
  /\ isRunning = TRUE
  /\ loopPc = "sleep"
  /\ batch = <<>>
  /\ batchPos = 0
  /\ sleepMs = LoopSleepMs
  /\ pendingReplies = [u \in Users |-> 0]
  /\ now = StartTime
  /\ sessions = EmptyMap
  /\ procs = <<>>
  /\ response = Response("none", CmdNone, 0)
  /\ reqCount = 0
  /\ execs = <<>>
  /\ previewServers = EmptyMap
  /\ projectCount = 0
  /\ generated = [projectId |-> 0, previewUrl |-> 0]
  /\ setups = <<>>

NextRetention ==
  \/ \E u \in Users, m \in ClockMessages :
       /\ Len(taskQueue) >= CleanupThreshold
       /\ MessageCount < CleanupThreshold + MaxMessages
       /\ HandleChatMessage(u, m)
  \/ \E u \in Users : ChatResponse(u, "failed")
  \/ StartTick
  \/ ExecuteFileGenerationOk(BurstFiles, BurstLanguage)
  \/ ExecuteFileGenerationFail
  \/ BackoffElapsed
  \/ ExecuteChatTask("failed")

SpecRetention == InitRetention /\ [][NextRetention]_vars

---------------------------------------------------------------------------
(* Properties *)

Tasks == 1..Len(taskQueue)
Procs == 1..Len(procs)

\* C1: no two previews registered at the same time hold the same port
\* (launch p1, launch p2, stop p1, launch p3 must not give p3 the port of p2).
C1_DistinctLivePorts ==
  \A p, q \in DOMAIN previewServers :
    p # q => previewServers[p].port # previewServers[q].port

\* C2: every pending task has retries <= maxRetries.
C2_PendingWithinLimit ==
  \A i \in Tasks :
    taskQueue[i].status = "pending" =>
      taskQueue[i].retries <= taskQueue[i].maxRetries

\* a task re-queued after its last allowed retry
C2_Witness ==
  \E i \in Tasks :
    /\ taskQueue[i].status = "pending"
    /\ taskQueue[i].retries = taskQueue[i].maxRetries

ApologyTurn == Turn("assistant", "apology")

CountTurns(history, turn) ==
  Cardinality({k \in 1..Len(history) : history[k] = turn})

FailedTasksOf(userId) ==
  {i \in Tasks : taskQueue[i].userId = userId /\ taskQueue[i].status = "failed"}

\* C3: every transition of a task to failed appends exactly one apology turn
\* to the owning user's session history.  As a state invariant: the session
\* of every task's owner is in the registry, and its history holds as many
\* apology turns as the owner has failed tasks (never fewer, never more).
C3_OneApologyPerFailure ==
  /\ \A i \in Tasks : taskQueue[i].userId \in DOMAIN activeSessions
  /\ \A u \in DOMAIN activeSessions :
       CountTurns(activeSessions[u].conversationHistory, ApologyTurn)
         = Cardinality(FailedTasksOf(u))

\* a task has failed permanently and its owner's history ends with the apology
C3_Witness ==
  \E i \in Tasks :
    /\ taskQueue[i].status = "failed"
    /\ taskQueue[i].userId \in DOMAIN activeSessions
    /\ LET h == activeSessions[taskQueue[i].userId].conversationHistory
       IN  Len(h) > 0 /\ h[Len(h)] = ApologyTurn

\* C4 as stated: in every state of a task, retries <= maxRetries.
C4_AlwaysWithinLimit ==
  \A i \in Tasks : taskQueue[i].retries <= taskQueue[i].maxRetries

\* C4 amended: a task that is pending, processing or completed has
\* retries <= maxRetries, and a failed task has retries = maxRetries + 1.
C4_WithinLimitUnlessFailed ==
  \A i \in Tasks :
    IF taskQueue[i].status = "failed"
    THEN taskQueue[i].retries = taskQueue[i].maxRetries + 1
    ELSE taskQueue[i].retries <= taskQueue[i].maxRetries

\* a failed task, one retry past its limit
C4_Witness ==
  \E i \in Tasks :
    /\ taskQueue[i].status = "failed"
    /\ taskQueue[i].retries = taskQueue[i].maxRetries + 1

\* the processes started under a session id that still run and whose
\* session is still active
LiveProcs(sessionId) ==
  {p \in Procs : /\ procs[p].sid = sessionId
                 /\ procs[p].alive
                 /\ procs[p].isActive}

\* C5: for every command session id at most one process started under that
\* id is alive and active, also when the kill of the old process fails.
C5_OneLiveProcessPerId ==
  \A s \in SessionIds : Cardinality(LiveProcs(s)) <= 1

\* a later process was started under the same session id
Superseded(ps, p) ==
  \E q \in (p + 1)..Len(ps) : ps[q].sid = ps[p].sid

\* C6: for run(sid, cmd1) then run(sid, cmd2), cmd1's process is killed
\* before cmd2's process is spawned (unless it had ended already), and
\* cmd1's onClose is never invoked after the replacement.
C6_OldKilledAndSilent ==
  [][ /\ \A p \in Procs :
           (~Superseded(procs, p) /\ Superseded(procs', p)) =>
              (procs'[p].signalled \/ ~procs[p].alive)
      /\ \A p \in Procs :
           Superseded(procs, p) => procs'[p].closeCalls = procs[p].closeCalls
    ]_vars

\* C7: onClose is invoked at most once for a spawned process, also when both
\* 'error' and 'close' are delivered.
C7_OnCloseAtMostOnce ==
  \A p \in Procs : procs[p].closeCalls <= 1

\* the request commands that contain, compared case-insensitively, a member
\* of the deny-list
DeniedCommands ==
  {c \in RequestCommands :
     \E i \in 1..Len(dangerousCommands) :
       Includes(ToLowerCase(c), dangerousCommands[i])}

\* C8: a run or exec request whose command contains a deny-list member in
\* any letter case is answered 400, spawns nothing and leaves the session
\* registry and its processes unchanged.
C8_DeniedRejectedBeforeSpawn ==
  [][ ( /\ reqCount' # reqCount
        /\ response'.route \in {"run", "exec"}
        /\ response'.command \in DeniedCommands )
      => ( /\ response'.status = 400
           /\ sessions' = sessions
           /\ procs' = procs
           /\ execCount' = execCount )
    ]_vars

\* "RM -RF /" was rejected while a session is registered and its process runs
C8_Witness ==
  /\ response.route = "run"
  /\ response.command = CmdRmRfUpper
  /\ response.status = 400
  /\ \E s \in DOMAIN sessions :
       procs[sessions[s]].alive /\ procs[sessions[s]].isActive

FileA(c) == [f \in {"a"} |-> [content |-> c, language |-> "ts"]]
FileB(c) == [f \in {"b"} |-> [content |-> c, language |-> "ts"]]

\* C9: a session's files only grow or are overwritten: no step of the
\* scheduler removes a session or a file name of a session; a successful
\* generation leaves every file it did not return as it was; and merging
\* {a: x} then {b: y} gives {a: x, b: y}, merging {a: z} after {a: x}
\* gives {a: z}.
C9_FilesMonotonic ==
  [][ /\ \A u \in DOMAIN activeSessions :
           /\ u \in DOMAIN activeSessions'
           /\ DOMAIN activeSessions[u].activeFiles
                \subseteq DOMAIN activeSessions'[u].activeFiles
      /\ DOMAIN MergeFiles(MergeFiles(EmptyMap, FileA("x")), FileB("y"))
           = {"a", "b"}
      /\ MergeFiles(MergeFiles(EmptyMap, FileA("x")), FileB("y"))["a"]
           = FileA("x")["a"]
      /\ MergeFiles(MergeFiles(EmptyMap, FileA("x")), FileB("y"))["b"]
           = FileB("y")["b"]
      /\ MergeFiles(FileA("x"), FileA("z")) = FileA("z")
    ]_vars

\* a session that went through two successful generations and holds a
\* (overwritten to z) and b
C9_Witness ==
  \E u \in DOMAIN activeSessions :
    /\ DOMAIN activeSessions[u].activeFiles = {"a", "b"}
    /\ activeSessions[u].activeFiles["a"].content = "z"
    /\ Cardinality({i \in Tasks : /\ taskQueue[i].userId = u
                                  /\ taskQueue[i].type = "file_generation"
                                  /\ taskQueue[i].status = "completed"}) = 2

\* the delay the claim gives for the n-th failure
ClaimedDelay(n) ==
  CASE n = 1 -> 1000
    [] n = 2 -> 2000
    [] n = 3 -> 4000
    [] n = 4 -> 8000
    [] n = 5 -> 16000
    [] OTHER -> 16000

\* C10: the backoff delay after the n-th failure is 1000, 2000, 4000, 8000,
\* 16000 ms for n = 1..5 and 16000 ms from n = 6 on; and whenever the loop
\* waits out a backoff, it sleeps that delay for the task's retry count.
C10_BackoffDelay ==
  /\ \A n \in 1..MaxFailures : RetryDelay(n) = ClaimedDelay(n)
  /\ loopPc = "backoff" => sleepMs = ClaimedDelay(CurTask.retries)

\* the loop waits 4000 ms after a task's third failure
C10_Witness ==
  /\ loopPc = "backoff"
  /\ CurTask.retries = 3
  /\ sleepMs = 4000

\* a pending task other than the one whose backoff the loop is waiting out
OtherPending(j) ==
  /\ j \in Tasks
  /\ j # batch[batchPos]
  /\ taskQueue[j].status = "pending"

\* C11: while a task waits out its backoff delay, only its own re-entry is
\* suspended: whenever another task is pending (selected in the same tick or
\* submitted meanwhile), a step is possible that moves such a task to
\* processing while the waiting task is still waiting (its delay has not
\* elapsed).
C11_OthersRunDuringBackoff ==
  (loopPc = "backoff" /\ isRunning /\ \E j \in Tasks : OtherPending(j)) =>
    ENABLED ( /\ Next
              /\ loopPc' = "backoff"
              /\ \E j \in Tasks : /\ OtherPending(j)
                                  /\ taskQueue'[j].status = "processing" )

\* the longest queue: every message queues one task, and every generation
\* task at most one preview_update task
MaxQueue == 2 * MaxMessages

\* task j is pending while the loop is inside the handler of a task of
\* another user
PendingBehindOtherUser(j) ==
  /\ j \in Tasks
  /\ taskQueue[j].status = "pending"
  /\ isRunning
  /\ loopPc \in {"executing", "stuck"}
  /\ CurTask.userId # taskQueue[j].userId

\* task j has been selected (or the loop was shut down)
SelectedOrShutDown(j) ==
  \/ ~isRunning
  \/ j \in Tasks /\ taskQueue[j].status # "pending"

\* C12: a pending task is eventually selected and executed although the
\* loop is inside the handler of another user's task, also when that handler
\* never returns.
C12_OthersEventuallySelected ==
  \A j \in 1..MaxQueue : PendingBehindOtherUser(j) ~> SelectedOrShutDown(j)

Processing == {i \in Tasks : taskQueue[i].status = "processing"}

\* the tasks a step takes out of the pending state
LeavingPending ==
  {i \in Tasks : taskQueue[i].status = "pending" /\ taskQueue'[i].status # "pending"}

InBatch(b, i) == \E k \in 1..Len(b) : b[k] = i

\* C13: at most 3 tasks are processing in every state, whatever the queue
\* depth, and one tick moves at most 3 tasks out of pending: a tick's batch
\* has at most 3 tasks, a step takes at most 3 tasks out of pending, and only
\* tasks of the tick's batch.
C13_BoundedBatch ==
  [][ /\ Cardinality(Processing) <= 3
      /\ Len(batch) <= 3
      /\ Cardinality(LeavingPending) <= 3
      /\ (batch # <<>> \/ batch' # <<>>) =>
           \A i \in LeavingPending : InBatch(batch, i) \/ InBatch(batch', i)
    ]_vars

\* a tick that selected 3 tasks while a fourth one was pending
C13_Witness ==
  /\ loopPc = "executing"
  /\ Len(batch) = 3
  /\ batchPos = 1
  /\ \E j \in Tasks : taskQueue[j].status = "pending" /\ ~InBatch(batch, j)

\* high before medium before low
PriorityRank(priority) ==
  CASE priority = "high" -> 1
    [] priority = "medium" -> 2
    [] priority = "low" -> 3

BatchTask(k) == taskQueue[batch[k]]

\* the handler of the task is over: it completed, failed for good, or failed
\* and was re-queued
HandlerFinished(t) ==
  \/ t.status \in {"completed", "failed"}
  \/ t.status = "pending" /\ t.retries >= 1

\* C14: within a tick the selected tasks are run in priority order, and in
\* submission (queue) order among equal priorities, whichever was submitted
\* first; while a task of the batch is being handled, every task before it
\* in that order has finished its handler and every task after it is still
\* pending, not started.
C14_PriorityOrder ==
  batch # <<>> =>
    /\ \A k, l \in 1..Len(batch) :
         k < l =>
           \/ PriorityRank(BatchTask(k).priority) < PriorityRank(BatchTask(l).priority)
           \/ /\ PriorityRank(BatchTask(k).priority) = PriorityRank(BatchTask(l).priority)
              /\ batch[k] < batch[l]
    /\ \A k \in 1..Len(batch) :
         /\ k < batchPos => HandlerFinished(BatchTask(k))
         /\ k = batchPos => BatchTask(k).status = "processing"
         /\ k > batchPos => BatchTask(k).status = "pending"

\* the medium-priority task B was submitted before the high-priority task A;
\* A completed before B was started
C14_Witness ==
  /\ Len(batch) = 2
  /\ batch[1] > batch[2]
  /\ BatchTask(1).priority = "high"
  /\ BatchTask(1).status = "completed"
  /\ BatchTask(2).priority = "medium"
  /\ BatchTask(2).status = "processing"
  /\ batchPos = 2

\* the message contains, compared case-insensitively, a keyword of the set
ContainsKeyword(message) ==
  \E i \in 1..Len(appKeywords) : Includes(ToLowerCase(message), appKeywords[i])

\* the classification the claim gives: a keyword, and more than 10
\* characters in the message
ClaimedGeneration(message) ==
  ContainsKeyword(message) /\ Len(message) > 10

\* the task handleChatMessage queued in this step
QueuedTask == taskQueue'[Len(taskQueue')]

\* C15: a message is queued as a file_generation task if and only if it
\* contains a keyword (in any letter case) and its length is greater than
\* 10; every other message, a message of length <= 10 that contains "build"
\* included, is queued as a chat task.
C15_ClassifiedByLength ==
  [][ \A u \in Users, m \in Messages :
        HandleChatMessage(u, m) =>
          /\ QueuedTask.type = IF ClaimedGeneration(m) THEN "file_generation"
                                                       ELSE "chat"
          /\ (Len(m) <= 10 /\ Includes(m, appKeywords[2])) =>
                QueuedTask.type = "chat"
    ]_vars

\* the language's configuration has no run command or no port requirement
NotServable(language) ==
  ~languageConfigs[language].runCmd \/ ~languageConfigs[language].port

\* C16: a launch for a language whose configuration has no run command or no
\* port requirement returns no address and leaves the preview registry
\* unchanged, so that the registry does not list the project afterwards;
\* this is so both for startPreviewServer itself and for generateProject,
\* its caller.
C16_NoLaunchWithoutRunCmdOrPort ==
  [][ \A l \in Languages :
        (LaunchPreview(l) /\ NotServable(l)) =>
          /\ generated'.previewUrl = 0
          /\ previewServers' = previewServers
          /\ generated'.projectId \notin DOMAIN previewServers'
          /\ startPreviewServer(previewServers, generated'.projectId, l)
               = previewServers
    ]_vars

\* the last project was generated without a preview address while another
\* project's preview is registered
C16_Witness ==
  /\ generated.projectId = 2
  /\ generated.previewUrl = 0
  /\ DOMAIN previewServers = {1}

C18_ExecAlwaysResolves ==
  \A c \in 1..MaxRequests :
    (c \in 1..Len(execs) /\ ~execs[c].resolved)
      ~> (c \in 1..Len(execs) /\ execs[c].resolved)

\* the session registered under the id is marked active
ActiveSession(sessionId) ==
  sessionId \in DOMAIN sessions /\ procs[sessions[sessionId]].isActive

\* C19 as stated: kill(sessionId) answers true if and only if a session with
\* that id is registered and active at the call, and then the session is
\* signalled, marked inactive and removed; otherwise it answers false and
\* changes nothing.
C19_KillTrueIffActive ==
  [][ \A s \in SessionIds, kt \in BOOLEAN :
        PostTerminalKill(s, kt) =>
          /\ response'.success = ActiveSession(s)
          /\ ActiveSession(s) =>
               /\ s \notin DOMAIN sessions'
               /\ procs'[sessions[s]].signalled
               /\ ~procs'[sessions[s]].isActive
          /\ ~ActiveSession(s) => (sessions' = sessions /\ procs' = procs)
    ]_vars

\* C19 amended: kill(sessionId) answers true if and only if a session with
\* that id is registered and active at the call and sending the signal does
\* not throw, and then the session is signalled, marked inactive and
\* removed; otherwise (unknown id, session already inactive, second kill,
\* or the signal could not be sent) it answers false and changes nothing.
C19_KillTrueIffSignalled ==
  [][ \A s \in SessionIds, kt \in BOOLEAN :
        PostTerminalKill(s, kt) =>
          /\ response'.success = (ActiveSession(s) /\ ~kt)
          /\ (ActiveSession(s) /\ ~kt) =>
               /\ s \notin DOMAIN sessions'
               /\ procs'[sessions[s]].signalled
               /\ ~procs'[sessions[s]].isActive
          /\ ~(ActiveSession(s) /\ ~kt) => (sessions' = sessions /\ procs' = procs)
    ]_vars

\* a kill answered true: the session's process was signalled, the session is
\* inactive and no longer registered
C19_Witness ==
  /\ response.route = "kill"
  /\ response.success
  /\ \E p \in Procs : /\ procs[p].signalled
                      /\ ~procs[p].isActive
                      /\ procs[p].sid \notin DOMAIN sessions

\* C20: after shutdown a task that is processing stays processing (it is
\* never marked completed, failed or pending), and no pending task leaves
\* the pending state.
C20_NothingAfterShutdown ==
  [][ ~isRunning =>
        \A i \in Tasks :
          /\ taskQueue[i].status = "processing" =>
               taskQueue'[i].status = "processing"
          /\ taskQueue[i].status = "pending" =>
               taskQueue'[i].status = "pending"
    ]_vars

\* a file_generation task of the user is processing
GenerationInProgress(userId) ==
  \E i \in Tasks : /\ taskQueue[i].type = "file_generation"
                    /\ taskQueue[i].userId = userId
                    /\ taskQueue[i].status = "processing"

\* C21: a session's isGenerating flag is true in every state in which a
\* file_generation task of the session's user is processing, and false in
\* every state in which none is.
C21_BusyWhileGenerating ==
  \A u \in DOMAIN activeSessions :
    activeSessions[u].isGenerating = GenerationInProgress(u)

\* C22: the registry, and so getActiveServers(), never holds a preview
\* whose process has ended: the entry is removed when the process ends.
C22_NoExitedPreviewListed ==
  \A e \in getActiveServers :
    /\ e.id \in DOMAIN previewServers
    /\ ~previewServers[e.id].exited

\* C23: the tasks of the queue have pairwise distinct ids, also when a user
\* submits two messages of the same kind at the same clock value.
C23_DistinctTaskIds ==
  \A i, j \in Tasks : i # j => taskQueue[i].id # taskQueue[j].id

IsPrefix(h, g) == Len(h) <= Len(g) /\ SubSeq(g, 1, Len(h)) = h

\* C24: a session's history is append-only: for a session that stays in the
\* registry, every step (message intake, reply, task success, retry,
\* permanent failure, sweep) leaves the previous history as a prefix of the
\* new one.
C24_HistoryAppendOnly ==
  [][ \A u \in DOMAIN activeSessions :
        u \in DOMAIN activeSessions' =>
          IsPrefix(activeSessions[u].conversationHistory,
                   activeSessions'[u].conversationHistory)
    ]_vars

\* a history that went through two intakes, a successful generation and a
\* permanent failure after its retries
C24_Witness ==
  \E u \in DOMAIN activeSessions :
    LET h == activeSessions[u].conversationHistory
    IN  /\ Len(h) = 4
        /\ h[1] = Turn("user", "message")
        /\ CountTurns(h, Turn("assistant", "summary")) = 1
        /\ CountTurns(h, ApologyTurn) = 1

\* C25: the maintenance sweep evicts a session that received no turn for
\* longer than the inactivity window (1 hour), and does not evict a session
\* that received a turn within the window: after an idle hour every session
\* of the registry is gone, and as long as less than an hour has passed
\* since the start no session with turns is evicted.
C25_IdleSessionsEvicted ==
  [][ /\ IdleHour => \A u \in DOMAIN activeSessions : u \notin DOMAIN activeSessions'
      /\ now' - StartTime <= InactivityWindowMs =>
           \A u \in DOMAIN activeSessions : u \in DOMAIN activeSessions'
    ]_vars

\* the handler of task i is running
HandlerRuns(i) ==
  /\ taskQueue[i].status = "processing"
  /\ ~(loopPc = "backoff" /\ batch[batchPos] = i)

\* how many times the handler of task i was started: once for every failure
\* counted in retries, and once more if it is running or has succeeded
Executions(i) ==
  taskQueue[i].retries
    + (IF HandlerRuns(i) \/ taskQueue[i].status = "completed" THEN 1 ELSE 0)

\* C26 as stated: the handler of a task is executed at most maxRetries times
\* (3 for a file_generation task, 2 for a chat or preview_update task).
C26_ExecutedAtMostLimit ==
  \A i \in Tasks : Executions(i) <= taskQueue[i].maxRetries

\* C26 amended: the handler of a task is executed at most maxRetries + 1
\* times, the first attempt and maxRetries retries (4 for a file_generation
\* task); a failed task was executed exactly maxRetries + 1 times; and the
\* handler of a chat or preview_update task, which cannot fail, is executed
\* at most once.
C26_ExecutedAtMostLimitPlusOne ==
  \A i \in Tasks :
    /\ Executions(i) <= taskQueue[i].maxRetries + 1
    /\ taskQueue[i].status = "failed" =>
         Executions(i) = taskQueue[i].maxRetries + 1
    /\ taskQueue[i].type = "file_generation" => Executions(i) <= 4
    /\ taskQueue[i].type \in {"chat", "preview_update"} => Executions(i) <= 1

\* the fourth execution of a file_generation handler
C26_Witness ==
  /\ loopPc = "executing"
  /\ CurTask.type = "file_generation"
  /\ Executions(batch[batchPos]) = 4

CompletedCount(q) ==
  Cardinality({i \in 1..Len(q) : q[i].status = "completed"})

\* C27: the retention sweep runs only when more than 100 tasks are
\* completed; it removes the completed and, once beyond the threshold, the
\* failed tasks, and never a pending or processing task, so that the status
\* of a pending or processing task is never not-found.  For the sweep
\* applied to the queue of every state, and for every step in which the
\* queue was swept.
C27_SweepRemovesFinished ==
  [][ LET swept == cleanupCompletedTasks(taskQueue)
      IN  /\ swept # taskQueue => CompletedCount(taskQueue) > 100
          /\ CompletedCount(taskQueue) > 100 =>
               \A k \in 1..Len(swept) :
                 swept[k].status \notin {"completed", "failed"}
          /\ \A i \in Tasks :
               taskQueue[i].status \in {"pending", "processing"} =>
                 /\ \E k \in 1..Len(swept) : swept[k] = taskQueue[i]
                 /\ getTaskStatus(swept, taskQueue[i].id) # "undefined"
          /\ Len(taskQueue') < Len(taskQueue) =>
               /\ Len(taskQueue) - Len(taskQueue') >= 100
               /\ \A k \in 1..Len(taskQueue') :
                    taskQueue'[k].status \notin {"completed", "failed"}
    ]_vars

\* C28: when a file_generation handler succeeds, every returned file is in
\* the session's files with the returned content and language, exactly one
\* summary turn is appended to the history, and a preview_update task is
\* queued if and only if the generation produced a preview; in that case the
\* session's projectId is the project's id and the project is in the preview
\* registry.
C28_GenerationSuccess ==
  [][ \A f \in ResultFiles, l \in GenLanguages :
        ExecuteFileGenerationOk(f, l) =>
          LET u == CurTask.userId
              previewQueued ==
                /\ Len(taskQueue') = Len(taskQueue) + 1
                /\ QueuedTask.type = "preview_update"
                /\ QueuedTask.userId = u
                /\ QueuedTask.status = "pending"
          IN  /\ u \in DOMAIN activeSessions'
              /\ \A n \in DOMAIN f :
                   /\ n \in DOMAIN activeSessions'[u].activeFiles
                   /\ activeSessions'[u].activeFiles[n] = f[n]
              /\ activeSessions'[u].conversationHistory
                   = Append(activeSessions[u].conversationHistory,
                            Turn("assistant", "summary"))
              /\ previewQueued <=> generated'.previewUrl # 0
              /\ ~previewQueued => Len(taskQueue') = Len(taskQueue)
              /\ generated'.previewUrl # 0 =>
                   /\ activeSessions'[u].projectId = generated'.projectId
                   /\ generated'.projectId \in DOMAIN previewServers'
    ]_vars

\* a second generation of a user succeeded with a preview: the session holds
\* the files a (overwritten) and b, its projectId is the new project's, the
\* project is registered and its preview_update task is queued
C28_Witness ==
  \E u \in DOMAIN activeSessions :
    /\ generated.previewUrl # 0
    /\ activeSessions[u].projectId = generated.projectId
    /\ generated.projectId \in DOMAIN previewServers
    /\ DOMAIN activeSessions[u].activeFiles = {"a", "b"}
    /\ activeSessions[u].activeFiles["a"].content = "z"
    /\ CountTurns(activeSessions[u].conversationHistory,
                  Turn("assistant", "summary")) = 2
    /\ \E i \in Tasks : /\ taskQueue[i].type = "preview_update"
                        /\ taskQueue[i].userId = u
                        /\ taskQueue[i].status = "pending"

\* what every failure of a file_generation handler leaves alone: the
\* session's files and projectId, the preview registry, the length of the
\* queue (no preview_update task is queued) and the task's other fields;
\* the task's retries go up by one
FailureFrame(i, u) ==
  /\ u \in DOMAIN activeSessions'
  /\ activeSessions'[u].activeFiles = activeSessions[u].activeFiles
  /\ activeSessions'[u].projectId = activeSessions[u].projectId
  /\ previewServers' = previewServers
  /\ Len(taskQueue') = Len(taskQueue)
  /\ taskQueue'[i].retries = taskQueue[i].retries + 1
  /\ taskQueue'[i].status \in {"processing", "failed"}
  /\ [taskQueue'[i] EXCEPT !.retries = 0, !.status = "pending"]
       = [taskQueue[i] EXCEPT !.retries = 0, !.status = "pending"]

\* C29 as stated: when generateProject reports failure for a file_generation
\* task, the session's files, projectId and history are unchanged and no
\* preview_update task is queued; only the task's retries and status change,
\* on a retry and on the permanent failure.
C29_FailureChangesTaskOnly ==
  [][ ExecuteFileGenerationFail =>
        LET i == batch[batchPos]
            u == CurTask.userId
        IN  /\ FailureFrame(i, u)
            /\ activeSessions'[u].conversationHistory
                 = activeSessions[u].conversationHistory
    ]_vars

\* C29 amended: as stated for a failure that is retried; on the permanent
\* failure (the failure after maxRetries retries) the history gets exactly
\* one apology turn, and files, projectId, registry and queue length are
\* unchanged as well.
C29_FailureChangesTaskAndApology ==
  [][ ExecuteFileGenerationFail =>
        LET i == batch[batchPos]
            u == CurTask.userId
        IN  /\ FailureFrame(i, u)
            /\ activeSessions'[u].conversationHistory
                 = IF CurTask.retries + 1 <= CurTask.maxRetries
                   THEN activeSessions[u].conversationHistory
                   ELSE Append(activeSessions[u].conversationHistory, ApologyTurn)
    ]_vars

\* a second generation of a user failed and waits for its retry, while the
\* session holds the files and the projectId of the first
C29_Witness ==
  /\ loopPc = "backoff"
  /\ CurTask.type = "file_generation"
  /\ CurTask.userId \in DOMAIN activeSessions
  /\ activeSessions[CurTask.userId].projectId # 0
  /\ DOMAIN activeSessions[CurTask.userId].activeFiles # {}
  /\ CountTurns(activeSessions[CurTask.userId].conversationHistory, ApologyTurn) = 0

History(u) ==
  IF u \in DOMAIN activeSessions
  THEN activeSessions[u].conversationHistory ELSE <<>>

ChatTasksOf(u) ==
  {i \in Tasks : taskQueue[i].type = "chat" /\ taskQueue[i].userId = u}

CompletedChatTasksOf(u) ==
  {i \in ChatTasksOf(u) : taskQueue[i].status = "completed"}

MessageTasksOf(u) ==
  {i \in Tasks : taskQueue[i].type # "preview_update" /\ taskQueue[i].userId = u}

ReplyTurn == Turn("assistant", "reply")
ContextualTurn == Turn("assistant", "contextual")

ChatHandlingStep ==
  \/ \E u \in Users, o \in ChatOutcomes : ChatResponse(u, o)
  \/ \E o \in ChatOutcomes : ExecuteChatTask(o)

\* C31: the handling of a plain-chat message, its reply at intake or its
\* queued chat task, never adds an entry to the preview registry (never
\* spawns a preview process) and never draws a project.
C31_ChatStartsNoPreview ==
  [][ ChatHandlingStep =>
        /\ previewServers' = previewServers
        /\ projectCount' = projectCount
    ]_vars

\* C32: after the close or error event of its process a command session is
\* no longer in the session registry: getSession(id) is undefined, as after
\* an explicit kill.
C32_ClosedSessionRemoved ==
  \A s \in DOMAIN sessions :
    /\ ~procs[sessions[s]].closeEmitted
    /\ ~procs[sessions[s]].errorEmitted

\* the tasks whose handler is running
Running == {i \in Tasks : HandlerRuns(i)}

\* the status changes of a task in one step of the loop.  A preview_update
\* task, whose handler has no suspension point, goes from pending through
\* processing to completed within the step that selects it.
AllowedChange(t, from, to) ==
  \/ from = to
  \/ from = "pending" /\ to = "processing"
  \/ from = "processing" /\ to \in {"completed", "pending", "failed"}
  \/ t.type = "preview_update" /\ from = "pending" /\ to = "completed"

\* C34: the status of a task changes only from pending to processing, and
\* from processing to completed, to pending (retry) or to failed; completed
\* and failed are absorbing; a handler is only started on a task that was
\* pending; and at most one handler runs at a time, so never two for the
\* same task.
C34_StatusTransitions ==
  [][ /\ \A i \in Tasks :
           /\ i \in 1..Len(taskQueue')
           /\ AllowedChange(taskQueue[i], taskQueue[i].status, taskQueue'[i].status)
           /\ taskQueue[i].status \in {"completed", "failed"} =>
                taskQueue'[i].status = taskQueue[i].status
           /\ (taskQueue'[i].status = "processing" /\ taskQueue[i].status # "processing") =>
                taskQueue[i].status = "pending"
      /\ \A i \in 1..Len(taskQueue') \ Tasks : taskQueue'[i].status = "pending"
      /\ Cardinality(Running) <= 1
      /\ Cardinality(Processing) <= 1
    ]_vars

\* a task that failed, was re-queued and completed, next to a failed one
C34_Witness ==
  /\ \E i \in Tasks : taskQueue[i].status = "completed" /\ taskQueue[i].retries >= 1
  /\ \E i \in Tasks : taskQueue[i].status = "failed"

\* every contextual reply of the history is preceded by its message's reply:
\* no prefix of the history holds more contextual replies than replies
RepliesPrecede(h) ==
  \A n \in 1..Len(h) :
    CountTurns(SubSeq(h, 1, n), ContextualTurn)
      <= CountTurns(SubSeq(h, 1, n), ReplyTurn)

\* C40: for a plain-chat message the intake's reply is appended to the
\* history before the contextual reply of the message's chat task, under
\* every interleaving of the loop with the intake's await.
C40_ReplyBeforeContextual ==
  \A u \in DOMAIN activeSessions :
    RepliesPrecede(activeSessions[u].conversationHistory)

\* C36: the close of a run request kills only the process that this
\* request started: it never signals a process started by another (later)
\* request under the same session id, also when it follows the close event
\* of the request's own command.
C36_CloseKillsOwnProcessOnly ==
  [][ \A p \in Procs, kt \in BOOLEAN :
        RunRequestClosed(p, kt) =>
          \A q \in Procs \ {p} : procs'[q].signalled = procs[q].signalled
    ]_vars

\* C37: onClose gets the code 0 only for a process that exited with status
\* 0: a process that was ended by a signal (close event with code null) is
\* never reported with code 0.
C37_ZeroOnlyForNormalExit ==
  [][ \A p \in Procs, code \in ExitCodes :
        ProcClose(p, code) => (procs'[p].lastCode = 0 => code = 0)
    ]_vars

\* C38: the task id in the response to a generation request is the id of
\* the task that the request enqueued: getTaskStatus of the returned id,
\* asked right after the response, gives that task's status and not
\* undefined.
C38_ReturnedTaskIdFound ==
  [][ \A u \in Users, m \in ClockMessages, e \in 0..1 :
        (PostEnhancedChat(u, m, e) /\ IsAppGenerationRequest(m)) =>
          /\ GenerationResponse(u).taskId = taskQueue'[Len(taskQueue')].id
          /\ getTaskStatus(taskQueue', GenerationResponse(u).taskId)
               = taskQueue'[Len(taskQueue')].status
    ]_vars

\* the preview address that belongs to the session of the user: none
\* without a projectId, else the port registered under the projectId
RegisteredPreviewUrl(ss, servers, userId) ==
  LET session == GetSession(ss, userId)
  IN  IF session.projectId = 0 THEN {NoPreviewUrl}
      ELSE {servers[p].port : p \in {session.projectId} \cap DOMAIN servers}

\* C39: the preview address in a response is absent when the session has no
\* projectId, and else it is the address of the preview server registered
\* under the session's projectId, whatever the number of files.
C39_ReportedPreviewIsRegistered ==
  [][ /\ \A u \in Users, m \in ClockMessages, e \in 0..1 :
           (PostEnhancedChat(u, m, e) /\ IsAppGenerationRequest(m)) =>
             GenerationResponse(u).previewUrl
               \in RegisteredPreviewUrl(activeSessions', previewServers', u)
      /\ \A u \in Users :
           ChatResponse(u, "failed") =>
             PlainChatResponse(u).previewUrl
               \in RegisteredPreviewUrl(activeSessions', previewServers', u)
    ]_vars

\* task j has reached a final state
Finished(j) ==
  j \in Tasks /\ taskQueue[j].status \in {"completed", "failed"}

\* C35: when the loop is never stopped and no handler invocation hangs
\* (every one returns or throws), every submitted task, of whatever
\* priority, eventually reaches completed or failed; the messages are
\* finitely many (at most MaxMessages).
C35_EveryTaskFinishes ==
  ([]isRunning /\ [](loopPc # "stuck")) =>
    \A j \in 1..MaxQueue : (j \in Tasks) ~> Finished(j)

\* a queue of a high-priority and a medium-priority task, both finished, the
\* first after retries, with the loop still running
C35_Witness ==
  /\ isRunning
  /\ loopPc = "sleep"
  /\ \E i, j \in Tasks : /\ taskQueue[i].priority = "high"
                         /\ taskQueue[i].retries > 0
                         /\ taskQueue[j].priority = "medium"
  /\ \A j \in Tasks : Finished(j)

\* the promises of the commands are settled once: a settled promise
\* keeps its outcome, and setupProject's promise is never rejected
SettledOnce ==
  \A k \in 1..Len(setups) :
    /\ setups'[k].result \in {"pending", "resolved"}
    /\ setups[k].result = "resolved" => setups'[k].result = "resolved"
    /\ \A c \in SetupCommands(k) :
         setups[k].cmds[c].promise # "pending" =>
           setups'[k].cmds[c].promise = setups[k].cmds[c].promise

InOutput(k, line) ==
  \E n \in 1..Len(setups[k].output) : setups[k].output[n] = line

\* a finished process and a fired timer leave the promise settled, the
\* timer has issued the kill, and the setup of a rejected command has
\* resolved with the failure in its output
SettledWhenOver ==
  \A k \in 1..Len(setups) :
    \A c \in SetupCommands(k) :
      LET cmd == setups[k].cmds[c]
      IN  /\ (cmd.exited \/ cmd.timerFired) => cmd.promise # "pending"
          /\ cmd.timerFired => cmd.killed
          /\ cmd.promise = "rejected" =>
               /\ setups[k].result = "resolved"
               /\ InOutput(k, "Error")
               /\ InOutput(k, "Setup failed")

\* C33: the promise of executeCommand settles exactly once per command:
\* when the process finishes, or at the 60 s ceiling, where the kill is
\* issued and the promise resolved; every setup comes to an end, also when
\* a process never finishes; and a failed command is reported in the output
\* of a setup that resolves.
C33_CommandsSettleOnce ==
  /\ []SettledWhenOver
  /\ [][SettledOnce]_vars
  /\ \A k \in 1..MaxSetups :
       (k \in 1..Len(setups)) ~> (k \in 1..Len(setups) /\ setups[k].result = "resolved")

\* one setup ended by the timer of a command whose process finished later
\* with an error, and one ended by the failure of its command
C33_Witness ==
  \E k, j \in 1..Len(setups) :
    /\ setups[k].result = "resolved"
    /\ setups[k].cmds # <<>>
    /\ setups[k].cmds[1].promise = "resolved"
    /\ setups[k].cmds[1].timerFired /\ setups[k].cmds[1].exited
    /\ InOutput(k, "Error") /\ ~InOutput(k, "Setup failed")
    /\ setups[j].result = "resolved"
    /\ InOutput(j, "Setup failed")
    /\ setups[j].cmds[1].timerFired

===========================================================================
